---------------------------- MODULE Spec2Model ----------------------------
(***************************************************************************)
(* Localization-dashboard readouts (apps/dashboards/readouts.py).          *)
(*                                                                         *)
(* The module reads three tables, wiki_document, wiki_revision and         *)
(* auth_user, through one count query pair (overview_rows) and four raw    *)
(* SQL queries (the Readout subclasses).  The state is the content of the  *)
(* three tables plus the last call made and what it returned.  Each SQL    *)
(* query is evaluated clause by clause: joins as set comprehensions over   *)
(* the tables, scalar subqueries as operators that yield NULL over an      *)
(* empty set, comparisons with SQL's rule that a comparison with NULL is   *)
(* not true, ORDER BY as the choice of any sequence ordered by the key,    *)
(* LIMIT as a prefix.                                                      *)
(***************************************************************************)
EXTENDS Integers, Sequences, FiniteSets

VARIABLES documents, revisions, users, call, result

vars == <<documents, revisions, users, call, result>>

---------------------------------------------------------------------------
(* Bounds of the model.                                                    *)

\* documents (each with one revision) of a database of documents
MaxDocs == 3
\* revisions of the original in a database of an original and a translation
MaxRevs == 3
\* revisions in a database of edits awaiting review
MaxEdits == 3
\* largest integer passed as rows(max)
MaxMax == 1

---------------------------------------------------------------------------
(* Values.                                                                 *)

\* SQL NULL / Python None in a column; ids, times and significances are > 0
NULL == 0

WIKI_DEFAULT_LANGUAGE == "en-US"

Locales == {WIKI_DEFAULT_LANGUAGE, "de"}

TYPO_SIGNIFICANCE == 10
MEDIUM_SIGNIFICANCE == 20
MAJOR_SIGNIFICANCE == 30

Significances == {TYPO_SIGNIFICANCE, MEDIUM_SIGNIFICANCE, MAJOR_SIGNIFICANCE}

\* rows(max=None): the absent argument is <<>>, an integer n is <<n>>
None == <<>>

MaxArgs == {None} \cup {<<n>> : n \in 0..MaxMax}

\* auth_user.username of the users, by id
Usernames == <<"ann", "bob">>

DocIds == DOMAIN documents
RevIds == DOMAIN revisions
UserIds == DOMAIN users

Max(S) == CHOOSE x \in S : \A y \in S : y <= x
Min(S) == CHOOSE x \in S : \A y \in S : x <= y

\* SQL's a > b: not true when either side is NULL
SqlGt(a, b) == a # NULL /\ b # NULL /\ a > b
\* SQL's a >= b
SqlGe(a, b) == a # NULL /\ b # NULL /\ a >= b
\* SQL's a = b
SqlEq(a, b) == a # NULL /\ b # NULL /\ a = b
\* SQL's MAX()/MIN() over the non-NULL values of a column: NULL when none
SqlMax(S) == IF S \ {NULL} = {} THEN NULL ELSE Max(S \ {NULL})
SqlMin(S) == IF S \ {NULL} = {} THEN NULL ELSE Min(S \ {NULL})

---------------------------------------------------------------------------
(* The database.  A document's current_revision is its latest approved     *)
(* revision (the host application sets it when a revision is approved); a  *)
(* revision is based on an earlier revision; an approved revision has been *)
(* reviewed.  A revision's created and reviewed times are written as the   *)
(* revision's id (revisions are created in the order of their ids), so     *)
(* that a time read back from a row names the revision it came from.       *)

\* the latest approved revision of document d in revs, NULL if none
LatestApproved(revs, d) ==
    SqlMax({r \in DOMAIN revs : revs[r].document = d /\ revs[r].is_approved})

\* fill in current_revision_id of every document from the revisions
WithCurrent(docs, revs) ==
    [d \in DOMAIN docs |->
        [docs[d] EXCEPT !.current_revision = LatestApproved(revs, d)]]

Doc(loc, localizable, par) ==
    [locale |-> loc, is_localizable |-> localizable, parent |-> par,
     current_revision |-> NULL]

\* status: "approved", "rejected" (reviewed, not approved) or "unreviewed"
Rev(id, doc, basedOn, sig, status, createdAt, creatorId) ==
    [document |-> doc, based_on |-> basedOn, significance |-> sig,
     is_approved |-> (status = "approved"),
     reviewed |-> IF status = "unreviewed" THEN NULL ELSE id,
     created |-> createdAt, creator |-> creatorId]

\* unique_together (parent, locale): at most one translation per locale
UniqueTranslations(docs) ==
    \A a, b \in DOMAIN docs :
        (a # b /\ docs[a].parent # NULL /\ docs[a].parent = docs[b].parent)
            => docs[a].locale # docs[b].locale

\* a translation is a document in another locale than its parent, and its
\* parent is not itself a translation
TranslationsOfOriginals(docs) ==
    \A t \in DOMAIN docs :
        docs[t].parent # NULL =>
            /\ docs[docs[t].parent].parent = NULL
            /\ docs[docs[t].parent].locale # docs[t].locale

\* Documents in any arrangement of locale, localizability and parent; one
\* revision per document, approved or not.
RECURSIVE DocSeqs(_)
DocSeqs(n) ==
    IF n = 0 THEN {<<>>}
    ELSE {Append(s, Doc(loc, lz, par)) :
            s \in DocSeqs(n - 1), loc \in Locales, lz \in BOOLEAN,
            par \in {NULL} \cup ((1..MaxDocs) \ {n})}

RECURSIVE FirstRevSeqs(_)
FirstRevSeqs(n) ==
    IF n = 0 THEN {<<>>}
    ELSE {Append(s, Rev(n, n, NULL, MEDIUM_SIGNIFICANCE, st, n, 1)) :
            s \in FirstRevSeqs(n - 1), st \in {"approved", "unreviewed"}}

InitDocuments ==
    \E docs \in DocSeqs(MaxDocs), revs \in FirstRevSeqs(MaxDocs) :
        /\ UniqueTranslations(docs)
        /\ TranslationsOfOriginals(docs)
        /\ revisions = revs
        /\ documents = WithCurrent(docs, revs)

\* An original (1) with MaxRevs revisions, each of some significance and
\* approved or not, and its German translation (2) with one later
\* revision, approved or not, based on a revision of the original or on
\* none.
RECURSIVE OriginalRevSeqs(_)
OriginalRevSeqs(n) ==
    IF n = 0 THEN {<<>>}
    ELSE {Append(s, Rev(n, 1, NULL, sig, st, n, 1)) :
            s \in OriginalRevSeqs(n - 1), sig \in Significances,
            st \in {"approved", "unreviewed"}}

InitTranslations ==
    \E orig \in OriginalRevSeqs(MaxRevs), b \in {NULL} \cup 1..MaxRevs,
       st \in {"approved", "unreviewed"} :
        LET revs == Append(orig, Rev(MaxRevs + 1, 2, b, NULL, st,
                                     MaxRevs + 1, 2))
        IN  /\ revisions = revs
            /\ documents = WithCurrent(
                   <<Doc(WIKI_DEFAULT_LANGUAGE, TRUE, NULL),
                     Doc("de", FALSE, 1)>>, revs)

\* Two documents, the second in either locale; revisions of either, by
\* either user, approved, rejected or unreviewed.
RECURSIVE EditSeqs(_)
EditSeqs(n) ==
    IF n = 0 THEN {<<>>}
    ELSE {Append(s, Rev(n, d, NULL, MEDIUM_SIGNIFICANCE, st, n, u)) :
            s \in EditSeqs(n - 1), d \in 1..2,
            st \in {"approved", "rejected", "unreviewed"},
            u \in DOMAIN Usernames}

InitEdits ==
    \E revs \in EditSeqs(MaxEdits), loc \in Locales :
        /\ revisions = revs
        /\ documents = WithCurrent(<<Doc(WIKI_DEFAULT_LANGUAGE, TRUE, NULL),
                                     Doc(loc, FALSE, NULL)>>, revs)

NoCall == [op |-> "none", locale |-> WIKI_DEFAULT_LANGUAGE, max |-> None]

InitRequest ==
    /\ users = Usernames
    /\ call = NoCall
    /\ result = <<>>

Init == (InitDocuments \/ InitTranslations \/ InitEdits) /\ InitRequest

---------------------------------------------------------------------------
(* overview_rows(locale)                                                   *)

\* Document.uncached.exclude(current_revision=None).filter(
\*     locale=settings.WIKI_DEFAULT_LANGUAGE, is_localizable=True).count()
OverviewTotal ==
    Cardinality({d \in DocIds :
        /\ documents[d].current_revision # NULL
        /\ documents[d].locale = WIKI_DEFAULT_LANGUAGE
        /\ documents[d].is_localizable})

\* Document.uncached.filter(locale=locale).exclude(
\*     current_revision=None).exclude(parent=None).count()
OverviewTranslated(locale) ==
    Cardinality({d \in DocIds :
        /\ documents[d].locale = locale
        /\ documents[d].current_revision # NULL
        /\ documents[d].parent # NULL})

\* int(round(translated / float(total) * 100)) if total else 100
\* (round() of a value >= 0 rounds a half up)
OverviewPercent(translated, total) ==
    IF total # 0 THEN (200 * translated + total) \div (2 * total) ELSE 100

overview_rows(locale) ==
    /\ call.op = "none"
    /\ result' = <<[title |-> "All Knowledge Base Articles",
                    numerator |-> OverviewTranslated(locale),
                    denominator |-> OverviewTotal,
                    percent |-> OverviewPercent(OverviewTranslated(locale),
                                                OverviewTotal)]>>
    /\ call' = [op |-> "overview", locale |-> locale, max |-> None]
    /\ UNCHANGED <<documents, revisions, users>>

---------------------------------------------------------------------------
(* Readout: rows(max), limit_clause(max)                                   *)

\* ' LIMIT %i' % max if max else '': the clause is <<>> or <<"LIMIT", n>>
limit_clause(max) ==
    IF max # None /\ max[1] # 0 THEN <<"LIMIT", max[1]>> ELSE <<>>

\* ORDER BY <third column> DESC: every sequence of the rows of S in which
\* the key never increases (NULL sorts last; rows with equal keys come in
\* any order)
RECURSIVE OrderByDesc(_)
OrderByDesc(S) ==
    IF S = {} THEN {<<>>}
    ELSE UNION {{<<x>> \o s : s \in OrderByDesc(S \ {x})} :
                  x \in {y \in S : \A z \in S : z.updated <= y.updated}}

\* the LIMIT clause applied to an ordered result
Limited(seq, clause) ==
    IF clause = <<>> \/ clause[2] >= Len(seq) THEN seq
    ELSE SubSeq(seq, 1, clause[2])

\* cursor.execute(query); cursor.fetchall(): any ordering of the selected
\* rows that ORDER BY allows, cut by the LIMIT clause
Fetched(selected, max) ==
    {Limited(seq, limit_clause(max)) : seq \in OrderByDesc(selected)}

---------------------------------------------------------------------------
(* UntranslatedReadout                                                     *)

\* the join without "AND translated.locale=%s": a translation into any
\* locale matches
UntranslatedJoinAnyLocale(p, locale) ==
    LET matches == {t \in DocIds : SqlEq(documents[t].parent, p)}
    IN  IF matches = {} THEN {NULL} ELSE matches

\* LEFT OUTER JOIN wiki_document translated ON
\*     parent.id=translated.parent_id AND translated.locale=%s
\* the translated ids joined to parent p, NULL when no document matches
UntranslatedJoin(p, locale) ==
    LET matches == {t \in DocIds : SqlEq(documents[t].parent, p)
                                   /\ documents[t].locale = locale}
    IN  IF matches = {} THEN {NULL} ELSE matches

\* the rows selected: (slug, title) is written as the document's id
UntranslatedSelect(locale) ==
    {[slug |-> p, updated |-> revisions[r].reviewed, via |-> <<r, t>>] :
        <<p, r, t>> \in
            {j \in DocIds \X RevIds \X ({NULL} \cup DocIds) :
                /\ SqlEq(documents[j[1]].current_revision, j[2])
                /\ j[3] \in UntranslatedJoin(j[1], locale)
                /\ j[3] = NULL
                /\ documents[j[1]].is_localizable
                /\ documents[j[1]].locale = WIKI_DEFAULT_LANGUAGE}}

\* the Document built from the row is used for its title and URL only
UntranslatedFormatRow(row) ==
    [title |-> row.slug, url |-> <<"wiki.document", row.slug>>,
     visits |-> 0, percent |-> 0, updated |-> row.updated]

\* the call with each Document built by _format_row saved (d.save())
UntranslatedRowsSaving(locale, max) ==
    /\ call.op = "none"
    /\ \E rows \in Fetched(UntranslatedSelect(locale), max) :
          /\ result' = [i \in 1..Len(rows) |-> UntranslatedFormatRow(rows[i])]
          /\ documents' = documents \o
                [i \in 1..Len(rows) |-> Doc(WIKI_DEFAULT_LANGUAGE, TRUE, NULL)]
    /\ call' = [op |-> "untranslated", locale |-> locale, max |-> max]
    /\ UNCHANGED <<revisions, users>>

UntranslatedRows(locale, max) ==
    /\ call.op = "none"
    /\ \E rows \in Fetched(UntranslatedSelect(locale), max) :
          result' = [i \in 1..Len(rows) |-> UntranslatedFormatRow(rows[i])]
    /\ call' = [op |-> "untranslated", locale |-> locale, max |-> max]
    /\ UNCHANGED <<documents, revisions, users>>

---------------------------------------------------------------------------
(* OutOfDateReadout, NeedingUpdatesReadout                                 *)

\* (SELECT based_on_id FROM wiki_revision basedonrev
\*  WHERE basedonrev.id=transdoc.current_revision_id): NULL when no row
BasedOnId(transdoc) ==
    LET found == {b \in RevIds :
                     SqlEq(b, documents[transdoc].current_revision)}
    IN  IF found = {} THEN NULL
        ELSE revisions[CHOOSE b \in found : TRUE].based_on

\* the subquery without "AND engsince.is_approved"
MaxSignificanceSinceAnyRevision(transdoc) ==
    SqlMax({revisions[e].significance : e \in
        {r \in RevIds :
            /\ SqlEq(revisions[r].document, documents[transdoc].parent)
            /\ SqlGt(r, BasedOnId(transdoc))}})

\* (SELECT MAX(engsince.significance) FROM wiki_revision engsince
\*  WHERE engsince.document_id=transdoc.parent_id AND engsince.is_approved
\*  AND engsince.id>(based_on_id of the current translation))
MaxSignificanceSince(transdoc) ==
    SqlMax({revisions[e].significance : e \in
        {r \in RevIds :
            /\ SqlEq(revisions[r].document, documents[transdoc].parent)
            /\ revisions[r].is_approved
            /\ SqlGt(r, BasedOnId(transdoc))}})

\* (SELECT min(id) FROM wiki_revision
\*  WHERE wiki_revision.document_id=transdoc.parent_id
\*  AND wiki_revision.id>(based_on_id of the current translation)
\*  AND wiki_revision.significance>=MEDIUM_SIGNIFICANCE
\*  AND _max_significance=(MAX significance since))
OldestSignificantId(transdoc, max_significance) ==
    SqlMin({r \in RevIds :
        /\ SqlEq(revisions[r].document, documents[transdoc].parent)
        /\ SqlGt(r, BasedOnId(transdoc))
        /\ SqlGe(revisions[r].significance, MEDIUM_SIGNIFICANCE)
        /\ SqlEq(max_significance, MaxSignificanceSince(transdoc))})

\* FROM wiki_document transdoc INNER JOIN wiki_revision engrev ON
\* engrev.id=(...) WHERE transdoc.locale=%s
OutOfDateSelect(locale, max_significance) ==
    {[slug |-> j[1], updated |-> revisions[j[2]].reviewed, via |-> <<j[2]>>] :
        j \in {k \in DocIds \X RevIds :
                /\ SqlEq(k[2], OldestSignificantId(k[1], max_significance))
                /\ documents[k[1]].locale = locale}}

OutOfDateFormatRow(row) ==
    [title |-> row.slug, url |-> <<"wiki.edit_document", row.slug>>,
     visits |-> 0, percent |-> 0, updated |-> row.updated]

OutOfDateRows(locale, max) ==
    /\ call.op = "none"
    /\ \E rows \in Fetched(OutOfDateSelect(locale, MAJOR_SIGNIFICANCE), max) :
          result' = [i \in 1..Len(rows) |-> OutOfDateFormatRow(rows[i])]
    /\ call' = [op |-> "out-of-date", locale |-> locale, max |-> max]
    /\ UNCHANGED <<documents, revisions, users>>

NeedingUpdatesRows(locale, max) ==
    /\ call.op = "none"
    /\ \E rows \in Fetched(OutOfDateSelect(locale, MEDIUM_SIGNIFICANCE), max) :
          result' = [i \in 1..Len(rows) |-> OutOfDateFormatRow(rows[i])]
    /\ call' = [op |-> "needing-updates", locale |-> locale, max |-> max]
    /\ UNCHANGED <<documents, revisions, users>>

---------------------------------------------------------------------------
(* UnreviewedReadout                                                       *)

\* the join without the comparison with current_revision_id
UnreviewedJoinAnyAge(d, locale) ==
    {j \in RevIds \X UserIds :
        /\ SqlEq(d, revisions[j[1]].document)
        /\ SqlEq(revisions[j[1]].creator, j[2])
        /\ revisions[j[1]].reviewed = NULL
        /\ documents[d].locale = locale}

\* FROM wiki_document INNER JOIN wiki_revision ON
\* wiki_document.id=wiki_revision.document_id INNER JOIN auth_user ON
\* wiki_revision.creator_id=auth_user.id WHERE wiki_revision.reviewed IS
\* NULL AND (wiki_document.current_revision_id IS NULL OR
\* wiki_revision.id>wiki_document.current_revision_id) AND
\* wiki_document.locale=%s: the joined (revision, user) pairs of document d
UnreviewedJoin(d, locale) ==
    {j \in RevIds \X UserIds :
        /\ SqlEq(d, revisions[j[1]].document)
        /\ SqlEq(revisions[j[1]].creator, j[2])
        /\ revisions[j[1]].reviewed = NULL
        /\ \/ documents[d].current_revision = NULL
           \/ SqlGt(j[1], documents[d].current_revision)
        /\ documents[d].locale = locale}

\* GROUP_CONCAT(DISTINCT auth_user.username ORDER BY wiki_revision.id
\* SEPARATOR ', '): the usernames of the group in the order of the
\* revisions' ids, each kept where it first occurs; the ', '-joined string
\* is written as the sequence of its parts
RECURSIVE GroupConcat(_)
GroupConcat(group) ==
    IF group = {} THEN <<>>
    ELSE LET last == CHOOSE j \in group : \A k \in group : k[1] <= j[1]
             before == GroupConcat(group \ {last})
             name == users[last[2]]
         IN  IF \E i \in 1..Len(before) : before[i] = name THEN before
             ELSE Append(before, name)

\* SELECT slug, title, MAX(wiki_revision.created) maxcreated,
\* GROUP_CONCAT(...) ... GROUP BY wiki_document.id: one row per document
\* with a non-empty group
UnreviewedSelect(locale) ==
    {[slug |-> d,
      updated |-> SqlMax({revisions[j[1]].created :
                             j \in UnreviewedJoin(d, locale)}),
      users |-> GroupConcat(UnreviewedJoin(d, locale)),
      via |-> <<>>] :
        d \in {g \in DocIds : UnreviewedJoin(g, locale) # {}}}

UnreviewedFormatRow(row) ==
    [title |-> row.slug, url |-> <<"wiki.document_revisions", row.slug>>,
     visits |-> 0, percent |-> 0, updated |-> row.updated,
     users |-> row.users]

UnreviewedRows(locale, max) ==
    /\ call.op = "none"
    /\ \E rows \in Fetched(UnreviewedSelect(locale), max) :
          result' = [i \in 1..Len(rows) |-> UnreviewedFormatRow(rows[i])]
    /\ call' = [op |-> "unreviewed", locale |-> locale, max |-> max]
    /\ UNCHANGED <<documents, revisions, users>>

---------------------------------------------------------------------------
(* One dashboard view: a call is made on a fresh request, its rows are     *)
(* handed to the template, and the request ends.                           *)

\* Readout.render(rows): the rows go to the template; nothing is kept
render ==
    /\ call.op # "none"
    /\ call' = NoCall
    /\ result' = <<>>
    /\ UNCHANGED <<documents, revisions, users>>

Overview == \E locale \in Locales : overview_rows(locale)

Untranslated ==
    \E locale \in Locales, max \in MaxArgs : UntranslatedRows(locale, max)

OutOfDate ==
    \E locale \in Locales, max \in MaxArgs : OutOfDateRows(locale, max)

NeedingUpdates ==
    \E locale \in Locales, max \in MaxArgs : NeedingUpdatesRows(locale, max)

Unreviewed ==
    \E locale \in Locales, max \in MaxArgs : UnreviewedRows(locale, max)

Next ==
    \/ Overview
    \/ Untranslated
    \/ OutOfDate
    \/ NeedingUpdates
    \/ Unreviewed
    \/ render

Spec == Init /\ [][Next]_vars

\* the same calls over the databases of documents only
DocumentsInit == InitDocuments /\ InitRequest
SpecDocuments == DocumentsInit /\ [][Next]_vars

\* the same calls over the databases of an original and a translation only
TranslationsInit == InitTranslations /\ InitRequest
SpecTranslations == TranslationsInit /\ [][Next]_vars

\* the same calls over the databases of edits only
EditsInit == InitEdits /\ InitRequest
SpecEdits == EditsInit /\ [][Next]_vars

---------------------------------------------------------------------------
(* Properties.  Each is stated over the tables, the last call and its      *)
(* result, without the operators that model the queries.                   *)

Readouts == {"untranslated", "out-of-date", "needing-updates", "unreviewed"}

\* the titles of the rows of the result, one per row
RowsFor(d) == {i \in 1..Len(result) : result[i].title = d}

\* C1: UntranslatedReadout.rows(None) returns exactly one row for each
\* localizable document of the default language that has a current
\* revision and no translation into the locale, and no other row.
C1_UntranslatedExpected ==
    {p \in DocIds :
        /\ documents[p].locale = WIKI_DEFAULT_LANGUAGE
        /\ documents[p].is_localizable
        /\ documents[p].current_revision # NULL
        /\ ~\E t \in DocIds : documents[t].parent = p
                              /\ documents[t].locale = call.locale}

C1_UntranslatedExactlyTheUntranslated ==
    (call.op = "untranslated" /\ call.max = None) =>
        /\ \A p \in C1_UntranslatedExpected : Cardinality(RowsFor(p)) = 1
        /\ \A i \in 1..Len(result) : result[i].title \in C1_UntranslatedExpected

\* one document is listed while another, as eligible, is left out because
\* it has a translation into the locale
C1_Witness ==
    /\ call.op = "untranslated" /\ call.max = None
    /\ Len(result) > 0
    /\ \E p \in DocIds :
          /\ documents[p].locale = WIKI_DEFAULT_LANGUAGE
          /\ documents[p].is_localizable
          /\ documents[p].current_revision # NULL
          /\ RowsFor(p) = {}
          /\ \E t \in DocIds : documents[t].parent = p
                               /\ documents[t].locale = call.locale

\* C2: rows(max) with an integer max >= 0, 0 included, yields at most max
\* rows, each of them a row of rows(None).
C2_AllRows ==
    LET sel == CASE call.op = "untranslated" ->
                      {UntranslatedFormatRow(r) :
                          r \in UntranslatedSelect(call.locale)}
                 [] call.op = "out-of-date" ->
                      {OutOfDateFormatRow(r) :
                          r \in OutOfDateSelect(call.locale,
                                                MAJOR_SIGNIFICANCE)}
                 [] call.op = "needing-updates" ->
                      {OutOfDateFormatRow(r) :
                          r \in OutOfDateSelect(call.locale,
                                                MEDIUM_SIGNIFICANCE)}
                 [] call.op = "unreviewed" ->
                      {UnreviewedFormatRow(r) :
                          r \in UnreviewedSelect(call.locale)}
                 [] OTHER -> {}
    IN  sel

C2_RowsLimitedToMax ==
    (call.op \in Readouts /\ call.max # None) =>
        /\ Len(result) <= call.max[1]
        /\ \A i \in 1..Len(result) : result[i] \in C2_AllRows

\* C3: the overview row's numerator counts the approved localizable
\* default-language articles with an approved translation into the locale,
\* its denominator the approved localizable default-language articles, so
\* numerator <= denominator and 0 <= percent <= 100.
C3_Approved ==
    {p \in DocIds :
        /\ documents[p].locale = WIKI_DEFAULT_LANGUAGE
        /\ documents[p].is_localizable
        /\ documents[p].current_revision # NULL}

C3_ApprovedTranslated ==
    {p \in C3_Approved :
        \E t \in DocIds : /\ documents[t].parent = p
                          /\ documents[t].locale = call.locale
                          /\ documents[t].current_revision # NULL}

C3_OverviewCounts ==
    call.op = "overview" =>
        /\ result[1].numerator = Cardinality(C3_ApprovedTranslated)
        /\ result[1].denominator = Cardinality(C3_Approved)
        /\ result[1].numerator <= result[1].denominator
        /\ 0 <= result[1].percent /\ result[1].percent <= 100

\* C4: a document of the locale is listed by OutOfDateReadout.rows(None)
\* exactly when the greatest significance of the approved revisions of its
\* parent made after the revision its current revision is based on is
\* MAJOR_SIGNIFICANCE; by NeedingUpdatesReadout exactly when it is
\* MEDIUM_SIGNIFICANCE.
C4_ApprovedSince(t) ==
    IF documents[t].parent = NULL \/ documents[t].current_revision = NULL
    THEN {}
    ELSE LET basis == revisions[documents[t].current_revision].based_on
         IN  IF basis = NULL THEN {}
             ELSE {r \in RevIds : /\ revisions[r].document = documents[t].parent
                                  /\ revisions[r].is_approved
                                  /\ r > basis}

C4_GreatestIs(t, level) ==
    /\ \E r \in C4_ApprovedSince(t) : revisions[r].significance = level
    /\ \A r \in C4_ApprovedSince(t) : revisions[r].significance <= level

C4_Level ==
    IF call.op = "out-of-date" THEN MAJOR_SIGNIFICANCE ELSE MEDIUM_SIGNIFICANCE

C4_ListedIffGreatestSignificance ==
    (call.op \in {"out-of-date", "needing-updates"} /\ call.max = None) =>
        \A t \in DocIds :
            documents[t].locale = call.locale =>
                (RowsFor(t) # {} <=> C4_GreatestIs(t, C4_Level))

\* a translation is listed as needing updates although an unapproved
\* revision of its parent since its basis is of major significance
C4_Witness ==
    /\ call.op = "needing-updates" /\ call.max = None
    /\ \E t \in DocIds :
          /\ RowsFor(t) # {}
          /\ \E r \in RevIds :
                /\ revisions[r].document = documents[t].parent
                /\ ~revisions[r].is_approved
                /\ revisions[r].significance = MAJOR_SIGNIFICANCE
                /\ r > revisions[documents[t].current_revision].based_on

\* C5: the 'updated' value of every row of the two readouts is the
\* reviewed time of the oldest approved revision of the parent with
\* significance >= MEDIUM_SIGNIFICANCE made after the revision the
\* translation's current revision is based on.
C5_ApprovedSignificantSince(t) ==
    {r \in C4_ApprovedSince(t) :
        revisions[r].significance >= MEDIUM_SIGNIFICANCE}

C5_UpdatedFromOldestApproved ==
    call.op \in {"out-of-date", "needing-updates"} =>
        \A i \in 1..Len(result) :
            LET since == C5_ApprovedSignificantSince(result[i].title)
            IN  /\ since # {}
                /\ result[i].updated = revisions[Min(since)].reviewed

\* C6: no call changes the Document, Revision or User records.
C6_TablesUnchanged ==
    [][documents' = documents /\ revisions' = revisions /\ users' = users]_vars

\* rows of the untranslated readout have been built from Document objects
\* and the tables hold what they held before the call
C6_Witness ==
    /\ call.op = "untranslated" /\ Len(result) > 0
    /\ DocIds = 1..MaxDocs

\* C7: UnreviewedReadout.rows(None) has at most one row per document; a
\* document of the locale has a row exactly when it has a revision that is
\* not reviewed and is newer than its current revision, if any; the row's
\* 'updated' is the latest created time of those revisions and its 'users'
\* names the creator of each of them once, and nobody else.
C7_Pending(d) ==
    {r \in RevIds :
        /\ revisions[r].document = d
        /\ revisions[r].reviewed = NULL
        /\ \/ documents[d].current_revision = NULL
           \/ r > documents[d].current_revision}

=============================================================================
